---------------------------- MODULE Spec2Model ----------------------------
(***************************************************************************)
(* A model of the FloGrappling calendar scraper: the event discovery and   *)
(* extraction pipeline in its three variants (src/src/scrape.ts,           *)
(* src/unnamed/part_001 and src/unnamed/part_002), and the calendar entry  *)
(* built from each record (src/unnamed/part_000).                          *)
(*                                                                         *)
(* Text.  A JavaScript string is a sequence of lexemes; each lexeme is a   *)
(* piece of text whose characters the code never looks inside of except    *)
(* through the character classes tabled below (ends in a digit, is a       *)
(* numeric zone offset, is the letter Z, is white space).  Concatenation   *)
(* is \o, the empty string is << >>.                                       *)
(*                                                                         *)
(* Time.  Date.parse and Date.now count milliseconds; the model counts     *)
(* whole seconds (every quantity divided by 1000), because the checker's   *)
(* integers are 32 bits wide and 365 days of milliseconds are not.         *)
(***************************************************************************)
EXTENDS Integers, Sequences, FiniteSets, TLC

(***************************************************************************)
(* Strings                                                                 *)
(***************************************************************************)
\* Lexemes that are white space (what String.prototype.trim removes).
IsSpace(x) == x \in {" ", "\t"}

\* Lexemes whose last character is a decimal digit.
EndsInDigit(x) ==
    x \in {"2025-05-31T23:59:59", "2025-06-01T00:00:00", "2025-06-01T00:00:01",
           "2025-07-11T00:00:00", "2025-07-11T05:00:00", "2026-07-01T00:00:00",
           "2026-07-01T00:00:01", "+05:00", "-04:00", "7", "0"}

\* Lexemes of the shape [+-]dd:dd.
IsOffset(x) == x \in {"+05:00", "-04:00"}

\* Lexemes of the shape dddd-dd-ddTdd:dd:dd.
IsDateTime(x) ==
    x \in {"2025-05-31T23:59:59", "2025-06-01T00:00:00", "2025-06-01T00:00:01",
           "2025-07-11T00:00:00", "2025-07-11T05:00:00", "2026-07-01T00:00:00",
           "2026-07-01T00:00:01"}

RECURSIVE TrimStart(_)
TrimStart(s) ==
    IF s # << >> /\ IsSpace(Head(s)) THEN TrimStart(Tail(s)) ELSE s

RECURSIVE TrimEnd(_)
TrimEnd(s) ==
    IF s # << >> /\ IsSpace(s[Len(s)]) THEN TrimEnd(SubSeq(s, 1, Len(s) - 1)) ELSE s

\* String.prototype.trim
Trim(s) == TrimEnd(TrimStart(s))

\* String.prototype.includes for a one-lexeme needle.
Includes(s, x) == \E i \in 1..Len(s) : s[i] = x

(***************************************************************************)
(* JSON values.  k is the kind: "undef" (the field is absent), "null",     *)
(* "str", "num", "obj", "arr".  An object keeps its fields in insertion    *)
(* order (keys[i] has value vals[i]); an array keeps its items in vals.    *)
(***************************************************************************)
Undefined == [k |-> "undef", s |-> << >>, keys |-> << >>, vals |-> << >>]
Null      == [k |-> "null",  s |-> << >>, keys |-> << >>, vals |-> << >>]
JStr(s)   == [k |-> "str",   s |-> s,     keys |-> << >>, vals |-> << >>]
JNum(s)   == [k |-> "num",   s |-> s,     keys |-> << >>, vals |-> << >>]
JObj(keys, vals) == [k |-> "obj", s |-> << >>, keys |-> keys, vals |-> vals]
JArr(items) == [k |-> "arr", s |-> << >>, keys |-> << >>, vals |-> items]
EmptyObj == JObj(<< >>, << >>)

\* obj[key] / obj?.[key]: the value of the field, undefined when there is none
\* or when obj has no named fields.
Get(obj, key) ==
    IF obj.k = "obj" /\ \E i \in 1..Len(obj.keys) : obj.keys[i] = key
    THEN obj.vals[CHOOSE i \in 1..Len(obj.keys) : obj.keys[i] = key]
    ELSE Undefined

IsNullish(v) == v.k \in {"undef", "null"}

\* JavaScript truthiness.
Truthy(v) ==
    CASE v.k \in {"undef", "null"} -> FALSE
      [] v.k = "str" -> v.s # << >>
      [] v.k = "num" -> v.s # <<"0">>
      [] OTHER -> TRUE

\* a ?? b
Coalesce(a, b) == IF IsNullish(a) THEN b ELSE a

\* a || b
OrElse(a, b) == IF Truthy(a) THEN a ELSE b

RECURSIVE JoinStr(_, _)
\* Array.prototype.join over strings.
JoinStr(parts, sep) ==
    IF parts = << >> THEN << >>
    ELSE IF Len(parts) = 1 THEN parts[1]
    ELSE parts[1] \o sep \o JoinStr(Tail(parts), sep)

RECURSIVE ToStr(_)
\* value.toString() / String(value) of a value that is not nullish.
ToStr(v) ==
    CASE v.k \in {"str", "num"} -> v.s
      [] v.k = "obj" -> <<"[object Object]">>
      [] v.k = "arr" ->
           JoinStr([i \in 1..Len(v.vals) |->
                       IF IsNullish(v.vals[i]) THEN << >> ELSE ToStr(v.vals[i])],
                   <<",">>)
      [] OTHER -> << >>

RECURSIVE FlattenRange(_, _, _)
\* seqs[lo] \o ... \o seqs[hi], halving the range.
FlattenRange(seqs, lo, hi) ==
    IF lo > hi THEN << >>
    ELSE IF lo = hi THEN seqs[lo]
    ELSE FlattenRange(seqs, lo, (lo + hi) \div 2)
         \o FlattenRange(seqs, (lo + hi) \div 2 + 1, hi)

\* The concatenation of a sequence of sequences.
Flatten(seqs) == FlattenRange(seqs, 1, Len(seqs))

\* The elements of s at the positions in I, in the order of s.
Pick(s, I) ==
    [k \in 1..Cardinality(I) |->
        s[CHOOSE i \in I : Cardinality({j \in I : j <= i}) = k]]

RECURSIVE walk(_)
RECURSIVE walkAll(_)
\* Pre-order depth-first traversal: the node itself, then each child's walk.
walk(obj) ==
    IF obj.k \in {"obj", "arr"} THEN << obj >> \o walkAll(obj.vals) ELSE << >>
walkAll(items) == Flatten([i \in 1..Len(items) |-> walk(items[i])])

\* /Event$/i.test(t)
EndsWithEvent(t) ==
    t # << >> /\ t[Len(t)] \in {"Event", "SportsEvent", "event", "SPORTSEVENT"}

\* /ItemList$/i.test(t)
EndsWithItemList(t) ==
    t # << >> /\ t[Len(t)] \in {"ItemList", "itemlist"}

\* (node?.["@type"] || node?.type || "").toString()
TypeOf(node) == ToStr(OrElse(OrElse(Get(node, "@type"), Get(node, "type")), JStr(<< >>)))

(***************************************************************************)
(* URLs                                                                    *)
(***************************************************************************)
Base == "https://www.flograppling.com"

\* Lexemes that spell a scheme and a host, and the form the URL parser
\* serialises them in (scheme and host in lower case).
IsOrigin(x) ==
    x \in {"https://www.flograppling.com", "HTTPS://WWW.FLOGRAPPLING.COM",
           "https://other.example"}

LowerOrigin(x) == IF x = "HTTPS://WWW.FLOGRAPPLING.COM" THEN Base ELSE x

\* Lexemes that start with a slash: an absolute path.
IsPath(x) == x \in {"/", "/events/", "/events", "/articles/", "/collections"}

\* The percent-encoding the URL parser applies inside a path.
UrlEncode(x) == IF x = "[object Object]" THEN "[object%20Object]" ELSE x

\* Whether new URL(raw, Base) returns (TRUE) or throws TypeError (FALSE): a
\* scheme with no host cannot be parsed.
CanParseUrl(raw) == Trim(raw) # <<"http://">>

\* new URL(raw, Base).toString() for a raw string the parser accepts.
ResolveUrl(raw) ==
    LET r == Trim(raw)
        enc == [i \in 1..Len(r) |-> UrlEncode(r[i])]
    IN  IF r = << >> THEN <<Base, "/">>
        ELSE IF IsOrigin(Head(r))
             THEN <<LowerOrigin(Head(r))>> \o
                  (IF Len(r) = 1 THEN <<"/">> ELSE Tail(enc))
        ELSE IF IsPath(Head(r)) THEN <<Base>> \o enc
        ELSE <<Base, "/">> \o enc

(***************************************************************************)
(* The Event Parser                                                        *)
(***************************************************************************)
Nothing == << >>
Just(x) == << x >>

FGEvent(name, dateISO, location, url) ==
    [name |-> name, dateISO |-> dateISO, location |-> location, url |-> url]

\* /Event$/i.test(t) && (node.startDate || node.endDate)
IsDatedEvent(node) ==
    /\ EndsWithEvent(TypeOf(node))
    /\ (Truthy(Get(node, "startDate")) \/ Truthy(Get(node, "endDate")))

\* node.subEvent.find(x => Event-like with a start or end date), as a
\* sequence of at most one node.
FindSubEvent(node) ==
    LET se == Get(node, "subEvent")
        hit == IF se.k = "arr"
               THEN {i \in 1..Len(se.vals) : IsDatedEvent(se.vals[i])} ELSE {}
    IN  IF hit = {} THEN << >>
        ELSE << se.vals[CHOOSE i \in hit : \A j \in hit : i <= j] >>

RECURSIVE FirstDated(_)
\* The first node of a traversal that is an Event with a date (scrape.ts).
FirstDated(nodes) ==
    IF nodes = << >> THEN << >>
    ELSE IF IsDatedEvent(Head(nodes)) THEN << Head(nodes) >>
    ELSE FirstDated(Tail(nodes))

RECURSIVE FirstDatedOrSub(_)
\* The same with the subEvent look-ahead of part_001.
FirstDatedOrSub(nodes) ==
    IF nodes = << >> THEN << >>
    ELSE IF IsDatedEvent(Head(nodes)) THEN << Head(nodes) >>
    ELSE IF FindSubEvent(Head(nodes)) # << >> THEN FindSubEvent(Head(nodes))
    ELSE FirstDatedOrSub(Tail(nodes))

RECURSIVE FirstStarted(_)
\* The first Event node with a truthy startDate (part_002).
FirstStarted(nodes) ==
    IF nodes = << >> THEN << >>
    ELSE IF EndsWithEvent(TypeOf(Head(nodes))) /\ Truthy(Get(Head(nodes), "startDate"))
         THEN << Head(nodes) >>
    ELSE FirstStarted(Tail(nodes))

\* for (const blob of blobs) for (const node of walk(blob)): every node of
\* every block, blocks in order.
AllNodes(blobs) == walkAll(blobs)

\* (best.name ?? "").toString().trim() || "FloGrappling Event"
EventName(best) ==
    LET n == Trim(ToStr(Coalesce(Get(best, "name"), JStr(<< >>))))
    IN  IF n = << >> THEN <<"FloGrappling Event">> ELSE n

\* (best.startDate ?? best.endDate ?? "").toString().trim()
RawDate(best) ==
    Trim(ToStr(Coalesce(Coalesce(Get(best, "startDate"), Get(best, "endDate")),
                        JStr(<< >>))))

\* /\dZ$/.test(s)
EndsDigitZ(s) == Len(s) >= 2 /\ s[Len(s)] = "Z" /\ EndsInDigit(s[Len(s) - 1])

\* /[+-]\d{2}:\d{2}$/.test(s)
EndsOffset(s) == s # << >> /\ IsOffset(s[Len(s)])

\* part_001, structured data: append Z unless the string ends digit-Z or in
\* a numeric offset.
NormalizeZoneLd(rawISO) ==
    IF EndsDigitZ(rawISO) \/ EndsOffset(rawISO) THEN rawISO ELSE rawISO \o <<"Z">>

\* [...].filter(Boolean): the truthy values of a sequence, in order.
RECURSIVE FilterTruthy(_)
FilterTruthy(vs) ==
    IF vs = << >> THEN << >>
    ELSE (IF Truthy(Head(vs)) THEN << Head(vs) >> ELSE << >>) \o FilterTruthy(Tail(vs))

\* The location of the selected node: a string is trimmed; an object (or an
\* array) is flattened from name, locality, region and country; anything
\* else, and an object with no truthy part, leaves "TBA".
FlattenLocation(best) ==
    LET loc == Coalesce(Coalesce(Get(best, "location"), Get(best, "locationName")),
                        EmptyObj)
        address == Get(loc, "address")
        found == FilterTruthy(<< Get(loc, "name"),
                                 Get(address, "addressLocality"),
                                 Get(address, "addressRegion"),
                                 Get(address, "addressCountry") >>)
        parts == [i \in 1..Len(found) |-> Trim(ToStr(found[i]))]
    IN  IF loc.k = "str"
        THEN (IF Trim(loc.s) = << >> THEN <<"TBA">> ELSE Trim(loc.s))
        ELSE IF loc.k \in {"obj", "arr"} /\ parts # << >>
             THEN JoinStr(parts, <<", ">>)
        ELSE <<"TBA">>

\* The node's own url or @id as it is written, with no resolution.
RecordUrlUnresolved(best, fallbackUrl) ==
    ToStr(Coalesce(Coalesce(Get(best, "url"), Get(best, "@id")), JStr(fallbackUrl)))

\* let url = best.url ?? best["@id"] ?? fallbackUrl;
\* try { url = new URL(url, base).toString() } catch { url = fallbackUrl }
RecordUrl(best, fallbackUrl) ==
    LET url == ToStr(Coalesce(Coalesce(Get(best, "url"), Get(best, "@id")),
                              JStr(fallbackUrl)))
    IN  IF CanParseUrl(url) THEN ResolveUrl(url) ELSE fallbackUrl

\* The record built from the selected node, absent when dateISO is empty.
BuildEvent(best, dateISO, fallbackUrl) ==
    IF dateISO = << >> THEN Nothing
    ELSE Just(FGEvent(EventName(best), dateISO, FlattenLocation(best),
                      RecordUrl(best, fallbackUrl)))

\* scrape.ts
parseSingleEvent(blobs, fallbackUrl) ==
    LET best == FirstDated(AllNodes(blobs))
    IN  IF best = << >> THEN Nothing
        ELSE BuildEvent(best[1], RawDate(best[1]), fallbackUrl)

\* part_001: the subEvent look-ahead and the zone normalisation.
parseSingleEventZ(blobs, fallbackUrl) ==
    LET best == FirstDatedOrSub(AllNodes(blobs))
    IN  IF best = << >> THEN Nothing
        ELSE BuildEvent(best[1], NormalizeZoneLd(RawDate(best[1])), fallbackUrl)

\* part_002
parseEventFromJsonLd(blobs, fallbackUrl) ==
    LET best == FirstStarted(AllNodes(blobs))
    IN  IF best = << >> THEN Nothing
        ELSE BuildEvent(best[1], RawDate(best[1]), fallbackUrl)

(***************************************************************************)
(* Pages.  A fetched document is what the selectors of the code read from  *)
(* it: the script[type="application/ld+json"] islands in document order    *)
(* (ok: JSON.parse accepts the text, v: the value it returns), the href of *)
(* every anchor, and the pieces the DOM fallback of part_001 looks at.     *)
(***************************************************************************)
Island(v) == [ok |-> TRUE, v |-> v]
Malformed == [ok |-> FALSE, v |-> Undefined]

Page(islands, anchors, dom) ==
    [islands |-> islands, anchors |-> anchors, dom |-> dom]

\* ogTitle, ogSite, timeAttr: an attribute value, Undefined when no element
\* matches; h1, locText: the text of the first match, empty when none matches;
\* scripts: the text of every script element, joined.
Dom(ogTitle, h1, timeAttr, scripts, locText, ogSite) ==
    [ogTitle |-> ogTitle, h1 |-> h1, timeAttr |-> timeAttr, scripts |-> scripts,
     locText |-> locText, ogSite |-> ogSite]

NoDom == Dom(Undefined, << >>, Undefined, << >>, << >>, Undefined)

RECURSIVE ParsedIslands(_)
\* scrape.ts, part_001: every island JSON.parse accepts.
ParsedIslands(islands) ==
    IF islands = << >> THEN << >>
    ELSE (IF Head(islands).ok THEN << Head(islands).v >> ELSE << >>)
         \o ParsedIslands(Tail(islands))

parseJsonLdFrom(html) == ParsedIslands(html.islands)

RECURSIVE TruthyIslands(_)
\* part_002: safeParse gives null for a malformed island, and a falsy value
\* is not kept.
TruthyIslands(islands) ==
    IF islands = << >> THEN << >>
    ELSE (IF Head(islands).ok /\ Truthy(Head(islands).v)
          THEN << Head(islands).v >> ELSE << >>)
         \o TruthyIslands(Tail(islands))

extractJsonLd(html) == TruthyIslands(html.islands)

\* attr?.trim() || ""
TrimmedAttr(a) == IF a.k = "str" THEN Trim(a.s) ELSE << >>

\* scripts.match(/\d{4}-\d{2}-\d{2}T\d{2}:\d{2}:\d{2}(?:\.\d+)?(?:Z|[+-]\d{2}:\d{2})/):
\* the first date-time that a Z or a numeric offset follows, empty when none.
IsoMatch(scripts) ==
    LET hit == {i \in 1..(Len(scripts) - 1) :
                   /\ IsDateTime(scripts[i])
                   /\ (scripts[i + 1] = "Z" \/ IsOffset(scripts[i + 1]))}
    IN  IF hit = {} THEN << >>
        ELSE LET i == CHOOSE i \in hit : \A j \in hit : i <= j
             IN  << scripts[i], scripts[i + 1] >>

\* /[Z]|[+-]\d{2}:\d{2}$/.test(s): a Z anywhere, or a numeric offset at the end.
HasZOrEndsOffset(s) == Includes(s, "Z") \/ EndsOffset(s)

\* part_001, DOM fallback: if (dateISO && !(...)) dateISO += "Z"
NormalizeZoneDom(dateISO) ==
    IF dateISO # << >> /\ ~HasZOrEndsOffset(dateISO) THEN dateISO \o <<"Z">>
    ELSE dateISO

\* part_001: the record read from the DOM when structured data gave none.
DomFallback(html, url) ==
    LET d == html.dom
        title == TrimmedAttr(d.ogTitle)
        name == IF title # << >> THEN title
                ELSE IF Trim(d.h1) # << >> THEN Trim(d.h1)
                ELSE <<"FloGrappling Event">>
        byTime == TrimmedAttr(d.timeAttr)
        found == IF byTime # << >> THEN byTime ELSE IsoMatch(d.scripts)
        dateISO == NormalizeZoneDom(found)
        site == TrimmedAttr(d.ogSite)
        location == IF Trim(d.locText) # << >> THEN Trim(d.locText)
                    ELSE IF site # << >> THEN site
                    ELSE <<"TBA">>
    IN  IF dateISO = << >> THEN Nothing
        ELSE Just(FGEvent(name, dateISO, location, url))

\* The three variants of the pipeline, named by their files.
Variants == {"scrape.ts", "part_001", "part_002"}

\* What the Event Parser of a variant returns for a fetched page.
ParsePage(v, html, url) ==
    CASE v = "scrape.ts" -> parseSingleEvent(parseJsonLdFrom(html), url)
      [] v = "part_001"  -> parseSingleEventZ(parseJsonLdFrom(html), url)
      [] v = "part_002"  -> parseEventFromJsonLd(extractJsonLd(html), url)

\* What scrapeEvent returns once the page is fetched.
ScrapePage(v, html, url) ==
    IF v = "part_001" /\ ParsePage(v, html, url) = Nothing
    THEN DomFallback(html, url)
    ELSE ParsePage(v, html, url)

(***************************************************************************)
(* The Event-URL Discoverer                                                *)
(***************************************************************************)
\* An array where the code has a Set: every reference is appended.
ArrayPush(set, u) == Append(set, u)

\* Set.prototype.add on a set kept in insertion order.
SetAdd(set, u) ==
    IF \E i \in 1..Len(set) : set[i] = u THEN set ELSE Append(set, u)

\* The positions at which SetAdd, applied to the elements of s one after the
\* other, appends: those of the first occurrences.
Added(s) == {i \in 1..Len(s) : SetAdd(SubSeq(s, 1, i - 1), s[i]) # SubSeq(s, 1, i - 1)}

\* us.forEach(u => set.add(u)), for a set that holds no element twice.
AddAll(set, us) == Pick(set \o us, Added(set \o us))

\* try { urls.add(new URL(raw, base).toString()) } catch {}: the URL a raw
\* reference contributes, none when it does not parse.
Resolved(raw) == IF CanParseUrl(raw) THEN << ResolveUrl(raw) >> ELSE << >>

\* The same, kept only if (u.includes("/events/")).
ResolvedEvent(raw) ==
    IF CanParseUrl(raw) /\ Includes(ResolveUrl(raw), "/events/")
    THEN << ResolveUrl(raw) >> ELSE << >>

\* Direct Event: /Event$/i.test(t) && typeof node.url === "string"
EventUrlOf(node) ==
    IF EndsWithEvent(TypeOf(node)) /\ Get(node, "url").k = "str"
    THEN Resolved(Get(node, "url").s) ELSE << >>

\* it?.url ?? it?.item?.url ?? it?.["@id"], when it is a string.
ItemUrl(it) ==
    LET maybe == Coalesce(Coalesce(Get(it, "url"), Get(Get(it, "item"), "url")),
                          Get(it, "@id"))
    IN  IF maybe.k = "str" THEN ResolvedEvent(maybe.s) ELSE << >>

\* ItemList: the URLs of node.itemListElement ?? node.item ?? [].
ItemListUrls(node) ==
    LET items == Coalesce(Coalesce(Get(node, "itemListElement"), Get(node, "item")),
                          JArr(<< >>))
        arr == IF items.k = "arr" THEN items.vals ELSE << items >>
    IN  IF EndsWithItemList(TypeOf(node))
        THEN Flatten([i \in 1..Len(arr) |-> ItemUrl(arr[i])])
        ELSE << >>

\* part_001: the URLs of the Event-like children of an array-valued subEvent.
SubEventUrls(node) ==
    LET se == Get(node, "subEvent")
    IN  IF se.k = "arr"
        THEN Flatten([i \in 1..Len(se.vals) |-> EventUrlOf(se.vals[i])])
        ELSE << >>

\* Every URL the structured data of a page contributes, in the order the
\* code adds them to its set (repetitions included).
LdCandidates(blobs) ==
    LET nodes == AllNodes(blobs)
    IN  Flatten([i \in 1..Len(nodes) |->
                    EventUrlOf(nodes[i]) \o ItemListUrls(nodes[i])])

LdCandidatesSub(blobs) ==
    LET nodes == AllNodes(blobs)
    IN  Flatten([i \in 1..Len(nodes) |->
                    EventUrlOf(nodes[i]) \o ItemListUrls(nodes[i])
                    \o SubEventUrls(nodes[i])])

\* $("a[href*='/events/']"): every URL the anchors of a page contribute.
AnchorCandidates(html) ==
    Flatten([i \in 1..Len(html.anchors) |->
                IF Includes(html.anchors[i], "/events/")
                THEN ResolvedEvent(html.anchors[i]) ELSE << >>])

\* scrape.ts
urlsFromJsonLd(blobs) == AddAll(<< >>, LdCandidates(blobs))

\* part_001: with the subEvent branch.
urlsFromJsonLdSub(blobs) == AddAll(<< >>, LdCandidatesSub(blobs))

\* part_002
discoverUrlsFromJsonLd(blobs) == AddAll(<< >>, LdCandidates(blobs))

\* The safety caps of the three variants, and the months part_001 visits.
CapRendered == 40
CapMonthly == 80
CapStatic == 40
Months == 7

DiscoveryCap(v) ==
    CASE v = "scrape.ts" -> CapRendered
      [] v = "part_001"  -> CapMonthly
      [] v = "part_002"  -> CapStatic

\* Array.prototype.slice(0, n)
Slice(list, n) == SubSeq(list, 1, IF Len(list) < n THEN Len(list) ELSE n)

\* The index pages a variant fetches: one, or one per month.
IndexCount(v) == IF v = "part_001" THEN Months ELSE 1

\* What one index page adds to the set of discovered URLs.
DiscoverPage(v, urls, html) ==
    CASE v = "scrape.ts" ->
           IF urlsFromJsonLd(parseJsonLdFrom(html)) # << >>
           THEN urlsFromJsonLd(parseJsonLdFrom(html))
           ELSE AddAll(<< >>, AnchorCandidates(html))
      [] v = "part_001" ->
           AddAll(AddAll(urls, urlsFromJsonLdSub(parseJsonLdFrom(html))),
                  AnchorCandidates(html))
      [] v = "part_002" ->
           AddAll(discoverUrlsFromJsonLd(extractJsonLd(html)),
                  AddAll(<< >>, AnchorCandidates(html)))

(***************************************************************************)
(* The Aggregator/Windower                                                 *)
(***************************************************************************)
NaN == -1

\* Seconds since the epoch of a date-time lexeme read as UTC.
EpochOf(x) ==
    CASE x = "2025-05-31T23:59:59" -> 1748735999
      [] x = "2025-06-01T00:00:00" -> 1748736000
      [] x = "2025-06-01T00:00:01" -> 1748736001
      [] x = "2025-07-11T00:00:00" -> 1752192000
      [] x = "2025-07-11T05:00:00" -> 1752210000
      [] x = "2026-07-01T00:00:00" -> 1782864000
      [] x = "2026-07-01T00:00:01" -> 1782864001

\* Seconds east of UTC of an offset lexeme.
OffsetOf(x) ==
    CASE x = "+05:00" -> 5 * 3600
      [] x = "-04:00" -> 0 - 4 * 3600

\* Date.parse: a date-time alone is local time (zone seconds east of UTC),
\* followed by Z it is UTC, followed by an offset it is that zone's time;
\* anything else is not a date.
DateParse(s, zone) ==
    IF Len(s) = 1 /\ IsDateTime(s[1]) THEN EpochOf(s[1]) - zone
    ELSE IF Len(s) = 2 /\ IsDateTime(s[1]) /\ s[2] = "Z" THEN EpochOf(s[1])
    ELSE IF Len(s) = 2 /\ IsDateTime(s[1]) /\ IsOffset(s[2])
         THEN EpochOf(s[1]) - OffsetOf(s[2])
    ELSE NaN

\* Number.isFinite
IsFinite(t) == t # NaN

WindowPast == 30 * 24 * 3600
WindowFuture == 365 * 24 * 3600
Tolerance == 3 * 24 * 3600

\* The window with its two ends left out.
InWindowStrict(t, clock) ==
    IsFinite(t) /\ t > clock - WindowPast /\ t < clock + WindowFuture

\* scrape.ts, part_001: the filter's test on a parsed time.
InWindow(t, clock) ==
    IsFinite(t) /\ t >= clock - WindowPast /\ t <= clock + WindowFuture

\* part_002: the filter's test.
IsUpcoming(t, clock) == IsFinite(t) /\ t >= clock - Tolerance

Keeps(v, t, clock) ==
    IF v = "part_002" THEN IsUpcoming(t, clock) ELSE InWindow(t, clock)

\* out.filter(e => ...)
FilterEvents(v, evs, clock, zone) ==
    Pick(evs, {i \in 1..Len(evs) : Keeps(v, DateParse(evs[i].dateISO, zone), clock)})

\* The comparator with its operands exchanged: latest first.
CompareDescending(a, b, zone) == DateParse(b.dateISO, zone) - DateParse(a.dateISO, zone)

\* The comparator: Date.parse(a.dateISO) - Date.parse(b.dateISO).
Compare(a, b, zone) == DateParse(a.dateISO, zone) - DateParse(b.dateISO, zone)

\* Whether the sort puts evs[j] before evs[i]: it compares less, or it
\* compares equal and stands earlier (Array.prototype.sort is stable).
Precedes(evs, j, i, zone) ==
    \/ Compare(evs[j], evs[i], zone) < 0
    \/ Compare(evs[j], evs[i], zone) = 0 /\ j < i

\* Array.prototype.sort with the comparator: each element goes to the place
\* that follows the elements the sort puts before it.
SortEvents(evs, zone) ==
    [k \in 1..Len(evs) |->
        evs[CHOOSE i \in 1..Len(evs) :
                Cardinality({j \in 1..Len(evs) : Precedes(evs, j, i, zone)}) = k - 1]]

(***************************************************************************)
(* Inputs of the Event Parser: bounded sets of pages.                      *)
(***************************************************************************)
\* The longest date string, in lexemes, that a page carries.
MaxDateLen == 3

SeqsUpTo(S, n) == UNION {[1..k -> S] : k \in 0..n}

DateLexemes == {"2025-07-11T00:00:00", "Z", "+05:00", "TBD", "7", " "}

DateStrings == SeqsUpTo(DateLexemes, MaxDateLen)

RECURSIVE PresentPairs(_)
PresentPairs(pairs) ==
    IF pairs = << >> THEN << >>
    ELSE (IF Head(pairs)[2].k = "undef" THEN << >> ELSE << Head(pairs) >>)
         \o PresentPairs(Tail(pairs))

\* The object with the given <<key, value>> fields, an Undefined value
\* meaning that the field is left out.
Obj(pairs) ==
    LET p == PresentPairs(pairs)
    IN  JObj([i \in 1..Len(p) |-> p[i][1]], [i \in 1..Len(p) |-> p[i][2]])

T(lexeme) == JStr(<< lexeme >>)

MidDate == JStr(<<"2025-07-11T00:00:00", "Z">>)

OnePage(v) == Page(<< Island(v) >>, << >>, NoDom)

\* An Event node whose start and end date vary.
DatePages ==
    { OnePage(Obj(<< <<"@type", T("Event")>>, <<"name", T("Worlds")>>,
                     <<"startDate", a>>, <<"endDate", b>> >>)) :
        a \in {Undefined, Null, JNum(<<"0">>)} \cup {JStr(s) : s \in DateStrings},
        b \in {Undefined, JStr(<< >>), MidDate} }

PartValues == {Undefined, JStr(<< >>), JStr(<<" ">>), JStr(<<" ", "City", " ">>)}

AddressValues ==
    {Undefined, Null, T("Main St")} \cup
    { Obj(<< <<"addressLocality", l>>, <<"addressRegion", r>>,
             <<"addressCountry", c>> >>) :
        l \in PartValues, r \in PartValues,
        c \in {Undefined, JStr(<< >>), JStr(<<" ">>), T("US")} }

LocationValues ==
    {Undefined, Null, JStr(<< >>), JStr(<<" ">>), JStr(<<" ", "Arena", " ">>),
     JNum(<<"7">>), JArr(<< T("Arena") >>)} \cup
    { Obj(<< <<"name", n>>, <<"address", a>> >>) :
        n \in {Undefined, Null, JStr(<< >>), JStr(<<" ">>), T("Arena"),
               JStr(<<" ", "Arena">>), EmptyObj},
        a \in AddressValues }

\* An Event node whose location varies (location, or locationName when the
\* node has no location).
LocationPages ==
    { OnePage(Obj(<< <<"@type", T("SportsEvent")>>, <<"startDate", MidDate>>,
                     <<"location", l>>, <<"locationName", n>> >>)) :
        l \in LocationValues, n \in {Undefined} }
    \cup
    { OnePage(Obj(<< <<"@type", T("SportsEvent")>>, <<"startDate", MidDate>>,
                     <<"location", l>>, <<"locationName", n>> >>)) :
        l \in {Undefined, Null, JStr(<< >>)}, n \in {JStr(<<" ">>), T("Hall")} }

UrlValues ==
    {Undefined, Null, JStr(<< >>), JStr(<<"/events/", "9">>),
     JStr(<<Base, "/events/", "9">>), JStr(<<"HTTPS://WWW.FLOGRAPPLING.COM", "/events/", "9">>),
     JStr(<<"http://">>), JStr(<<"https://other.example", "/events/", "9">>),
     T("9"), EmptyObj}

\* An Event node whose url and @id vary.
UrlPages ==
    { OnePage(Obj(<< <<"@type", T("Event")>>, <<"startDate", MidDate>>,
                     <<"url", u>>, <<"@id", i>> >>)) :
        u \in UrlValues,
        i \in {Undefined, JStr(<<"/events/", "8">>), JStr(<<"http://">>)} }

EndOnly == Obj(<< <<"@type", T("SportsEvent")>>, <<"name", T("EndOnly")>>,
                  <<"endDate", MidDate>> >>)
Started == Obj(<< <<"type", T("event")>>, <<"name", T("Started")>>,
                  <<"startDate", JStr(<<"2025-06-01T00:00:00">>)>> >>)
Undated == Obj(<< <<"@type", T("Event")>>, <<"name", T("Undated")>>,
                  <<"url", JStr(<<"/events/", "7">>)>> >>)
Series(children) == Obj(<< <<"@type", T("EventSeries")>>, <<"name", T("Series")>>,
                           <<"subEvent", JArr(children)>> >>)

\* Pages on which several nodes compete for selection.
ShapePages ==
    { Page(islands, << >>, NoDom) :
        islands \in
          { << >>,
            << Malformed >>,
            << Island(Null) >>,
            << Malformed, Island(Null), Island(Started) >>,
            << Island(Undated) >>,
            << Island(EndOnly), Island(Started) >>,
            << Island(Started), Island(EndOnly) >>,
            << Island(JArr(<< Undated, EndOnly, Started >>)) >>,
            << Island(Obj(<< <<"@graph", JArr(<< Undated, Started, EndOnly >>)>> >>)) >>,
            << Island(Obj(<< <<"@type", T("WebPage")>>,
                             <<"mainEntity", EndOnly>>, <<"about", Started>> >>)) >>,
            << Island(Series(<< Undated, EndOnly, Started >>)) >>,
            << Island(Obj(<< <<"@type", T("EventSeries")>>,
                             <<"about", Started>>,
                             <<"subEvent", JArr(<< T("x"), Null, EndOnly >>)>> >>)) >>,
            << Island(Obj(<< <<"@type", T("Event")>>,
                             <<"subEvent", JArr(<< Started >>)>> >>)),
               Island(EndOnly) >>,
            << Island(Obj(<< <<"@type", T("Event")>>, <<"name", T("Outer")>>,
                             <<"startDate", MidDate>>,
                             <<"subEvent", JArr(<< Started >>)>> >>)) >> } }

\* Pages with no dated Event in their structured data, whose DOM varies.
DomPages ==
    { Page(islands, << >>, Dom(title, h1, time, scripts, << >>, Undefined)) :
        islands \in {<< >>, << Island(Undated) >>},
        title \in {Undefined},
        h1 \in {<< >>},
        time \in {Undefined} \cup {JStr(s) : s \in DateStrings},
        scripts \in {<< >>, <<"2025-07-11T00:00:00">>,
                     <<"var d = ", "2025-07-11T00:00:00", "+05:00", ";">>} }
    \cup
    { Page(<< Malformed >>, << >>, Dom(title, h1, T("2025-07-11T00:00:00"),
                                       << >>, loc, site)) :
        title \in {Undefined, JStr(<<" ">>), JStr(<<" ", "Title">>)},
        h1 \in {<< >>, <<"Heading", " ">>},
        loc \in {<< >>, <<" ", "Hall">>},
        site \in {Undefined, JStr(<< >>), T("FloGrappling")} }

PageInputs == DatePages \cup LocationPages \cup UrlPages \cup ShapePages \cup DomPages

(***************************************************************************)
(* State.  The variables of one run of getAllEvents, and the variables of  *)
(* one application of the Event Parser to a page (SpecPage), which a run   *)
(* leaves alone.                                                           *)
(***************************************************************************)
VARIABLES
    variant,    \* which file's pipeline runs
    site,       \* what the web site serves
    zone,       \* the local time zone of the machine, seconds east of UTC
    pc,         \* where getAllEvents is: "discover", "collections", "scrape", "done", "failed"
    month,      \* discoverEventUrls: index pages fetched so far
    urls,       \* discoverEventUrls: the Set of URLs, in insertion order
    list,       \* getAllEvents: urls, the list discovery returned
    idx,        \* getAllEvents: URLs of the list already scraped
    out,        \* getAllEvents: the records collected
    kept,       \* getAllEvents: the list returned
    now,        \* getAllEvents: the clock as the filter read it
    step,       \* getRenderedHtml: the await the fetch in progress is at
    open,       \* browsers launched and not closed
    failed,     \* history: the positions of the list whose scrape threw
    cands,      \* history: every URL reference discovery came by, in order
    returned,   \* history: the list discoverEventUrls returned
    exit        \* history: how the last fetch left withBrowser

vars == <<variant, site, zone, pc, month, urls, list, idx, out, kept, now, step,
          open, failed, cands, returned, exit>>


VARIABLES
    pgVariant,  \* which file's parser is applied
    pgPage,     \* the fetched page
    pgUrl,      \* the URL it was fetched from
    pgPhase,    \* "fetched", "parsed", "returned"
    pgParsed,   \* what the Event Parser returned
    pgResult,   \* what scrapeEvent returns
    pgPath      \* where the result came from: "ld" or "dom"

pgVars == <<pgVariant, pgPage, pgUrl, pgPhase, pgParsed, pgResult, pgPath>>

\* What a step of a run never changes.
world == <<variant, site, zone, pgVars>>

\* No run is in progress (SpecPage).
NoRun ==
    /\ variant = "scrape.ts"
    /\ site = [layout |-> "none", shift |-> 0, flaky |-> {}]
    /\ zone = 0
    /\ pc = "done"
    /\ month = 0
    /\ urls = << >>
    /\ list = << >>
    /\ idx = 0
    /\ out = << >>
    /\ kept = << >>
    /\ now = 0
    /\ step = "idle"
    /\ open = 0
    /\ failed = {}
    /\ cands = << >>
    /\ returned = << >>
    /\ exit = "none"

\* No page is being parsed on its own (Spec).
NoPage ==
    /\ pgVariant = "scrape.ts"
    /\ pgPage = << >>
    /\ pgUrl = << >>
    /\ pgPhase = "none"
    /\ pgParsed = << >>
    /\ pgResult = << >>
    /\ pgPath = "none"

PageUrl == <<Base, "/events/", "1">>

PageInit ==
    /\ NoRun
    /\ pgVariant \in Variants
    /\ pgPage \in PageInputs
    /\ pgUrl = PageUrl
    /\ pgPhase = "fetched"
    /\ pgParsed = Nothing
    /\ pgResult = Nothing
    /\ pgPath = "none"

\* The Event Parser runs on the blocks of the page.
Parse ==
    /\ pgPhase = "fetched"
    /\ pgParsed' = ParsePage(pgVariant, pgPage, pgUrl)
    /\ pgPhase' = "parsed"
    /\ UNCHANGED <<pgVariant, pgPage, pgUrl, pgResult, pgPath, vars>>

\* scrapeEvent returns what the parser gave (in part_001: if (byLd) return byLd).
ReturnParsed ==
    /\ pgPhase = "parsed"
    /\ pgVariant # "part_001" \/ pgParsed # Nothing
    /\ pgResult' = pgParsed
    /\ pgPath' = "ld"
    /\ pgPhase' = "returned"
    /\ UNCHANGED <<pgVariant, pgPage, pgUrl, pgParsed, vars>>

\* part_001: structured data gave nothing, the DOM is read.
Fallback ==
    /\ pgPhase = "parsed"
    /\ pgVariant = "part_001" /\ pgParsed = Nothing
    /\ pgResult' = DomFallback(pgPage, pgUrl)
    /\ pgPath' = "dom"
    /\ pgPhase' = "returned"
    /\ UNCHANGED <<pgVariant, pgPage, pgUrl, pgParsed, vars>>

PageNext == Parse \/ ReturnParsed \/ Fallback

SpecPage == PageInit /\ [][PageNext]_<<vars, pgVars>>

(***************************************************************************)
(* Claims about the Event Parser, checked under SpecPage.                  *)
(***************************************************************************)
\* The node the parser of a variant builds its record from (at most one).
Selected(v, html) ==
    CASE v = "scrape.ts" -> FirstDated(AllNodes(parseJsonLdFrom(html)))
      [] v = "part_001"  -> FirstDatedOrSub(AllNodes(parseJsonLdFrom(html)))
      [] v = "part_002"  -> FirstStarted(AllNodes(extractJsonLd(html)))

\* The non-empty texts of a node's start and end date.
DateTexts(node) ==
    { Trim(ToStr(x)) : x \in { y \in {Get(node, "startDate"), Get(node, "endDate")} :
                                 ~IsNullish(y) } } \ { << >> }

\* C1: a record the Event Parser returns has a dateISO that is not empty and
\* is the non-empty text of the selected node's startDate or endDate, with or
\* without the appended UTC marker (so never the appended marker alone).
C1_DateResolvable ==
    (pgPhase # "fetched" /\ pgParsed # Nothing) =>
        LET best == Selected(pgVariant, pgPage)[1]
            d == pgParsed[1].dateISO
        IN  /\ d # << >>
            /\ \E t \in DateTexts(best) : d = t \/ d = t \o <<"Z">>

\* A string that is a timestamp: a date-time, then nothing, Z or an offset.
IsTimestamp(s) ==
    /\ Len(s) \in {1, 2}
    /\ IsDateTime(s[1])
    /\ Len(s) = 2 => (s[2] = "Z" \/ IsOffset(s[2]))

\* Ends in the UTC marker or in a numeric offset.
ZoneQualified(s) == s # << >> /\ (s[Len(s)] = "Z" \/ IsOffset(s[Len(s)]))

\* The string part_001 extracted before it normalised the zone.
Extracted ==
    IF pgPath = "ld" THEN RawDate(Selected(pgVariant, pgPage)[1])
    ELSE IF TrimmedAttr(pgPage.dom.timeAttr) # << >>
         THEN TrimmedAttr(pgPage.dom.timeAttr)
    ELSE IsoMatch(pgPage.dom.scripts)

\* The normalisation of the path the record came by, applied once more.
Renormalized ==
    IF pgPath = "ld" THEN NormalizeZoneLd(pgResult[1].dateISO)
    ELSE NormalizeZoneDom(pgResult[1].dateISO)

\* C7: in part_001 a zone-qualified timestamp comes out unchanged, an
\* unqualified timestamp comes out with exactly one Z appended, and
\* normalising the outcome again changes nothing, whatever was extracted.
C7_NormalizeIdempotent ==
    (pgPhase = "returned" /\ pgVariant = "part_001" /\ pgResult # Nothing) =>
        LET s == Extracted
            d == pgResult[1].dateISO
        IN  /\ (IsTimestamp(s) /\ ZoneQualified(s)) => d = s
            /\ (IsTimestamp(s) /\ ~ZoneQualified(s)) => d = s \o <<"Z">>
            /\ Renormalized = d

\* The parts of a flattened location: the pieces between ", " separators.
RECURSIVE HasEmptyPart(_)
HasEmptyPart(s) ==
    \/ s = << >>
    \/ Head(s) = ", "
    \/ IsSpace(Head(s)) /\ (Len(s) = 1 \/ s[2] = ", ")
    \/ \E i \in 1..Len(s) : s[i] = ", " /\ HasEmptyPart(SubSeq(s, i + 1, Len(s)))

\* What the location is to be, for a location whose parts are strings.
TextOf(v) == IF v.k = "str" THEN Trim(v.s) ELSE << >>

RECURSIVE NonEmpty(_)
NonEmpty(ss) ==
    IF ss = << >> THEN << >>
    ELSE (IF Head(ss) = << >> THEN << >> ELSE << Head(ss) >>) \o NonEmpty(Tail(ss))

ExpectedLocation(best) ==
    LET loc == Coalesce(Coalesce(Get(best, "location"), Get(best, "locationName")),
                        EmptyObj)
        parts == NonEmpty(<< TextOf(Get(loc, "name")),
                             TextOf(Get(Get(loc, "address"), "addressLocality")),
                             TextOf(Get(Get(loc, "address"), "addressRegion")),
                             TextOf(Get(Get(loc, "address"), "addressCountry")) >>)
    IN  IF loc.k = "str" /\ Trim(loc.s) # << >> THEN Trim(loc.s)
        ELSE IF loc.k = "obj" /\ parts # << >> THEN JoinStr(parts, <<", ">>)
        ELSE <<"TBA">>

\* Whether every part of the node's location is a string or is missing.
PlainLocation(best) ==
    LET loc == Coalesce(Coalesce(Get(best, "location"), Get(best, "locationName")),
                        EmptyObj)
        ps == {Get(loc, "name"), Get(Get(loc, "address"), "addressLocality"),
               Get(Get(loc, "address"), "addressRegion"),
               Get(Get(loc, "address"), "addressCountry")}
    IN  loc.k \in {"str", "obj"} /\ \A x \in ps : x.k \in {"str", "undef", "null"}

\* C8: the location of a record is never empty, has no empty component, and
\* is the trimmed string, the present parts joined by ", ", or "TBA".
C8_LocationFlattened ==
    (pgPhase # "fetched" /\ pgParsed # Nothing) =>
        LET best == Selected(pgVariant, pgPage)[1]
            l == pgParsed[1].location
        IN  /\ l # << >>
            /\ ~HasEmptyPart(l)
            /\ PlainLocation(best) => l = ExpectedLocation(best)

\* An Event-like node that carries a start or an end timestamp.
Qualifies(node) ==
    /\ EndsWithEvent(TypeOf(node))
    /\ \E key \in {"startDate", "endDate"} : Truthy(Get(node, key))

\* C11: the node the record is built from is the first node, over the blocks
\* in document order and each block in pre-order, whose type ends in Event
\* and that carries a start or an end date (an end date alone is enough); no
\* node is selected when there is none.
C11_FirstQualifying ==
    pgPhase # "fetched" =>
        LET nodes == AllNodes(parseJsonLdFrom(pgPage))
            q == {i \in 1..Len(nodes) : Qualifies(nodes[i])}
            first == nodes[CHOOSE i \in q : \A j \in q : i <= j]
        IN  IF q = {} THEN pgParsed = Nothing
            ELSE /\ Selected(pgVariant, pgPage) = << first >>
                 /\ pgParsed # Nothing => pgParsed[1].name = EventName(first)

\* A URL with its scheme and host, in the form the URL parser writes them.
IsAbsolute(u) == Len(u) >= 2 /\ IsOrigin(u[1]) /\ LowerOrigin(u[1]) = u[1]

\* The node's own url field, else its @id field (Undefined when it has
\* neither).
OwnUrl(node) ==
    IF Get(node, "url").k \notin {"undef", "null"} THEN Get(node, "url")
    ELSE IF Get(node, "@id").k \notin {"undef", "null"} THEN Get(node, "@id")
    ELSE Undefined

\* C12: the url of a record is absolute; it is the selected node's url field,
\* else its @id field, resolved against the site origin when the field is
\* present and resolves, and the URL the page was fetched from when the node
\* has neither field or the resolution fails.
C12_UrlNormalized ==
    (pgPhase # "fetched" /\ pgParsed # Nothing) =>
        LET own == OwnUrl(Selected(pgVariant, pgPage)[1])
            u == pgParsed[1].url
        IN  /\ IsAbsolute(u)
            /\ IF own.k # "undef" /\ CanParseUrl(ToStr(own))
               THEN u = ResolveUrl(ToStr(own))
               ELSE u = pgUrl

\* A record whose node names its URL by a path, resolved to another URL than
\* the one the page was fetched from.
C12_Witness ==
    /\ pgPhase # "fetched" /\ pgParsed # Nothing
    /\ OwnUrl(Selected(pgVariant, pgPage)[1]) = JStr(<<"/events/", "9">>)
    /\ pgParsed[1].url = <<Base, "/events/", "9">>
    /\ pgParsed[1].url # pgUrl

\* A record whose node has a url that does not resolve and an @id that
\* would: the record has the URL the page was fetched from.
C12_FallbackReached ==
    /\ pgPhase # "fetched" /\ pgParsed # Nothing
    /\ OwnUrl(Selected(pgVariant, pgPage)[1]) = JStr(<<"http://">>)
    /\ pgParsed[1].url = pgUrl

(***************************************************************************)
(* The site: what each URL serves.  A site is a layout of its index pages, *)
(* a shift that decides which event page has which content, and the set of *)
(* URLs whose fetch may fail.                                              *)
(***************************************************************************)
\* How many URLs beyond the cap the long listings carry.
Over == 2

\* How many different assignments of contents to event pages are tried.
Shifts == 4

EventUrl(id) == <<Base, "/events/", ToString(id)>>

RelEventUrl(id) == <<"/events/", ToString(id)>>

MaxId == CapMonthly + Over + 8

\* The number that ends an event URL (0 for any other URL).
IdOf(url) ==
    IF Len(url) = 3 /\ url[1] = Base /\ url[2] = "/events/"
       /\ \E i \in 1..MaxId : ToString(i) = url[3]
    THEN CHOOSE i \in 1..MaxId : ToString(i) = url[3]
    ELSE 0

Titled(id) == JStr(<<"Event ", ToString(id)>>)

Dated(type, id, key, date) ==
    Obj(<< <<"@type", T(type)>>, <<"name", Titled(id)>>, <<key, JStr(date)>> >>)

EmptyPage == Page(<< >>, << >>, NoDom)

\* How many different contents an event page can have.
Templates == 10

\* The contents of event page id under template k.
EventTemplate(k, id) ==
    CASE k = 0 -> OnePage(Dated("Event", id, "startDate", <<"2025-07-11T00:00:00", "Z">>))
      [] k = 1 -> OnePage(Dated("Event", id, "startDate", <<"2026-07-01T00:00:01", "Z">>))
      [] k = 2 -> OnePage(Dated("SportsEvent", id, "startDate", <<"2025-06-01T00:00:00">>))
      [] k = 3 -> OnePage(Dated("SportsEvent", id, "endDate",
                                <<"2025-07-11T05:00:00", "+05:00">>))
      [] k = 4 -> OnePage(Dated("Event", id, "startDate", <<"TBD">>))
      [] k = 5 -> OnePage(Dated("Event", id, "startDate", <<"2025-05-31T23:59:59", "Z">>))
      [] k = 6 -> OnePage(Dated("Event", id, "startDate", <<"2026-07-01T00:00:00", "Z">>))
      [] k = 7 -> Page(<< Malformed >>, << >>,
                       Dom(Titled(id), << >>, T("2025-06-01T00:00:01"), << >>,
                           <<"Hall">>, Undefined))
      [] k = 8 -> OnePage(Obj(<< <<"@type", T("Event")>>, <<"name", Titled(id)>>,
                                 <<"startDate", MidDate>>,
                                 <<"url", JStr(RelEventUrl(1))>> >>))
      [] k = 9 -> OnePage(Obj(<< <<"@type", T("Event")>>, <<"name", Titled(id)>> >>))
      [] OTHER -> EmptyPage

Listed(ids) ==
    Obj(<< <<"@type", T("ItemList")>>,
           <<"itemListElement",
             JArr([i \in 1..Len(ids) |-> Obj(<< <<"url", JStr(RelEventUrl(ids[i]))>> >>)])>> >>)

Range(a, b) == [i \in 1..(b - a + 1) |-> a + i - 1]

\* Index page number i (0 is the first) of a layout, for a variant.
IndexPage(layout, v, i) ==
    CASE layout = "mixed" /\ i = 0 ->
           Page(<< Island(Obj(<< <<"@type", T("ItemList")>>,
                                 <<"itemListElement",
                                   JArr(<< Obj(<< <<"url", JStr(RelEventUrl(1))>> >>),
                                           Obj(<< <<"item", Obj(<< <<"url", JStr(EventUrl(2))>> >>)>> >>),
                                           Obj(<< <<"@id", JStr(RelEventUrl(1))>> >>),
                                           Obj(<< <<"url", JStr(<<"/articles/", "5">>)>> >>),
                                           Obj(<< <<"url", JStr(<<"http://">>)>> >>) >>)>> >>)),
                   Malformed,
                   Island(Obj(<< <<"@type", T("SportsEvent")>>,
                                 <<"url", JStr(<<"HTTPS://WWW.FLOGRAPPLING.COM", "/events/", "3">>)>>,
                                 <<"subEvent",
                                   JArr(<< Obj(<< <<"@type", T("Event")>>,
                                                  <<"url", JStr(RelEventUrl(2))>> >>),
                                           Obj(<< <<"@type", T("Event")>>,
                                                  <<"url", JStr(RelEventUrl(4))>> >>) >>)>> >>)) >>,
                << RelEventUrl(3), EventUrl(5), <<"/articles/", "9">> >>,
                NoDom)
      [] layout = "mixed" /\ i \in {1, 3} ->
           Page(<< Island(Listed(<< 2, 6 >>)) >>, << RelEventUrl(5) >>, NoDom)
      [] layout = "anchors" /\ i = 0 ->
           Page(<< Malformed >>,
                << RelEventUrl(2), EventUrl(1), RelEventUrl(2),
                   <<"HTTPS://WWW.FLOGRAPPLING.COM", "/events/", "3">>,
                   <<"/articles/", "9">> >>,
                NoDom)
      [] layout = "long" /\ i = 0 /\ v = "part_001" ->
           OnePage(Listed(Range(1, (DiscoveryCap(v) + Over) \div 2 + 1)))
      [] layout = "long" /\ i = 0 /\ v # "part_001" ->
           OnePage(Listed(Range(1, DiscoveryCap(v) + Over)
                          \o << 1, DiscoveryCap(v) + Over >>))
      [] layout = "long" /\ i = 1 ->
           OnePage(Listed(Range((DiscoveryCap(v) + Over) \div 2, DiscoveryCap(v) + Over)))
      [] OTHER -> EmptyPage

\* The page of known collections, the second source of part_002.
CollectionsPage(layout) ==
    IF layout = "bare"
    THEN OnePage(JArr([i \in 1..(CapStatic + Over) |->
                          Obj(<< <<"@type", T("Event")>>,
                                 <<"url", JStr(RelEventUrl(i))>> >>)]))
    ELSE EmptyPage

\* Pad a month number to two digits.
Pad2(m) == IF m < 10 THEN <<"0", ToString(m)>> ELSE << ToString(m) >>

\* The month the run starts in, counted in months: July 2025.
StartMonth == 2025 * 12 + 6

\* `${base}/events?date=${y}-${m}-01` for the month i after the current one
\* (part_001); `${base}/events` (scrape.ts, part_002).
IndexUrl(v, i) ==
    IF v = "part_001"
    THEN <<Base, "/events", "?date=", ToString((StartMonth + i) \div 12), "-">>
         \o Pad2(((StartMonth + i) % 12) + 1) \o <<"-01">>
    ELSE <<Base, "/events">>

CollectionsUrl == <<Base, "/collections">>

\* The document a URL of the site serves.
PageAt(st, v, url) ==
    IF \E i \in 0..(IndexCount(v) - 1) : url = IndexUrl(v, i)
    THEN IndexPage(st.layout, v, CHOOSE i \in 0..(IndexCount(v) - 1) : url = IndexUrl(v, i))
    ELSE IF url = CollectionsUrl THEN CollectionsPage(st.layout)
    ELSE IF IdOf(url) > 0 THEN EventTemplate((IdOf(url) + st.shift) % Templates, IdOf(url))
    ELSE EmptyPage

\* The sets of URLs whose fetch may fail, one of them per site.
FlakyChoices(v) ==
    { {}, {EventUrl(2)}, {EventUrl(1), EventUrl(3)}, {IndexUrl(v, 0)},
      {IndexUrl(v, IndexCount(v) - 1)} }

Sites(v) ==
    { [layout |-> l, shift |-> s, flaky |-> f] :
        l \in {"mixed", "anchors"}, s \in 0..(Shifts - 1), f \in FlakyChoices(v) }
    \cup
    { [layout |-> l, shift |-> 0, flaky |-> {}] : l \in {"long", "bare"} }

(***************************************************************************)
(* One run of getAllEvents.                                                *)
(*                                                                         *)
(* Every await of the code is a step: a run is suspended at one await at a *)
(* time, and an action carries it from one await to the next.  The fetch   *)
(* of the rendered strategy (scrape.ts, part_001) awaits the launch, the   *)
(* new page, the navigation, the content, the closing of the context and   *)
(* the closing of the browser; the fetch of the static strategy (part_002) *)
(* is one request.                                                         *)
(***************************************************************************)

\* the machine's zone: UTC, or Toronto in summer
Zones == {0, 0 - 4 * 3600}

\* Date.now() when the filter runs: 2025-07-01T00:00:00Z or a second later
Clocks == {1751328000, 1751328001}

Init ==
    /\ NoPage
    /\ variant \in Variants
    /\ site \in Sites(variant)
    /\ zone \in Zones
    /\ pc = "discover"
    /\ month = 0
    /\ urls = << >>
    /\ list = << >>
    /\ idx = 0
    /\ out = << >>
    /\ kept = << >>
    /\ now = 0
    /\ step = "idle"
    /\ open = 0
    /\ failed = {}
    /\ cands = << >>
    /\ returned = << >>
    /\ exit = "none"

\* The rendered strategy (a browser per fetch) or the static one.
Rendered == variant # "part_002"

\* The URL the run fetches next.
Target ==
    CASE pc = "discover"    -> IndexUrl(variant, month)
      [] pc = "collections" -> CollectionsUrl
      [] pc = "scrape"      -> list[idx + 1]

Fetching == pc \in {"discover", "collections", "scrape"}

MayFail == Target \in site.flaky

\* The run's own variables, as a record the continuations rewrite.
Frame ==
    [pc |-> pc, month |-> month, urls |-> urls, list |-> list, idx |-> idx,
     out |-> out, failed |-> failed, cands |-> cands, returned |-> returned]

\* Every reference one index page contributes, as the variant reads it.
PageCandidates(v, html) ==
    CASE v = "scrape.ts" ->
           IF LdCandidates(parseJsonLdFrom(html)) # << >>
           THEN LdCandidates(parseJsonLdFrom(html)) ELSE AnchorCandidates(html)
      [] v = "part_001" ->
           LdCandidatesSub(parseJsonLdFrom(html)) \o AnchorCandidates(html)
      [] v = "part_002" ->
           LdCandidates(extractJsonLd(html)) \o AnchorCandidates(html)

\* The for loop over the list: the next URL, or the filter when none is left.
LoopOrWindow(n, l) == IF n < Len(l) THEN "scrape" ELSE "window"

\* discoverEventUrls returns the capped list; getAllEvents goes on with it
\* (in part_002, to the collections page when the list is empty).
Discovered(f, found) ==
    LET l == Slice(found, DiscoveryCap(variant))
    IN  [f EXCEPT !.list = l,
                  !.returned = l,
                  !.pc = IF variant = "part_002" /\ l = << >> THEN "collections"
                         ELSE LoopOrWindow(0, l)]

\* discoverEventUrls, after the fetch of an index page returned html.
IndexFetched(f, html) ==
    LET found == DiscoverPage(variant, f.urls, html)
        g == [f EXCEPT !.urls = found, !.month = f.month + 1,
                       !.cands = f.cands \o PageCandidates(variant, html)]
    IN  IF g.month = IndexCount(variant) THEN Discovered(g, found) ELSE g

\* part_002, getAllEvents: more.forEach(u => urls.push(u))
CollectionsFetched(f, html) ==
    LET l == f.list \o discoverUrlsFromJsonLd(extractJsonLd(html))
    IN  [f EXCEPT !.list = l, !.pc = LoopOrWindow(0, l)]

\* getAllEvents: const ev = await scrapeEvent(u); if (ev) out.push(ev)
EventFetched(f, html) ==
    [f EXCEPT !.out = f.out \o ScrapePage(variant, html, f.list[f.idx + 1]),
              !.idx = f.idx + 1,
              !.pc = LoopOrWindow(f.idx + 1, f.list)]

\* scrapeEvent without its handler: the exception leaves getAllEvents.
ScrapeRethrown(f) ==
    [f EXCEPT !.failed = f.failed \cup {f.idx + 1}, !.pc = "failed"]

\* scrapeEvent: catch (e) { console.error(...); return null }
ScrapeCaught(f) ==
    [f EXCEPT !.failed = f.failed \cup {f.idx + 1},
              !.idx = f.idx + 1,
              !.pc = LoopOrWindow(f.idx + 1, f.list)]

\* part_002, getAllEvents: catch { /* ignore */ } around the collections page.
CollectionsCaught(f) == [f EXCEPT !.pc = LoopOrWindow(0, f.list)]

\* discoverEventUrls has no handler: the rejection ends getAllEvents.
DiscoveryThrew(f) == [f EXCEPT !.pc = "failed"]

\* The fetch returned html to whoever awaited it.
OnHtml(html) ==
    CASE pc = "discover"    -> IndexFetched(Frame, html)
      [] pc = "collections" -> CollectionsFetched(Frame, html)
      [] pc = "scrape"      -> EventFetched(Frame, html)

\* The fetch threw to whoever awaited it.
OnThrow ==
    CASE pc = "discover"    -> DiscoveryThrew(Frame)
      [] pc = "collections" -> CollectionsCaught(Frame)
      [] pc = "scrape"      -> ScrapeCaught(Frame)

\* The run goes on from a frame; at "window" the rest of getAllEvents runs
\* without another await: the clock is read, the records filtered and sorted.
Resume(f) ==
    /\ month' = f.month
    /\ urls' = f.urls
    /\ list' = f.list
    /\ idx' = f.idx
    /\ out' = f.out
    /\ failed' = f.failed
    /\ cands' = f.cands
    /\ returned' = f.returned
    /\ IF f.pc = "window"
       THEN \E clock \in Clocks :
                /\ now' = clock
                /\ kept' = SortEvents(FilterEvents(variant, f.out, clock, zone), zone)
                /\ pc' = "done"
       ELSE pc' = f.pc /\ UNCHANGED <<now, kept>>

Suspended ==
    UNCHANGED <<pc, month, urls, list, idx, out, kept, now, failed, cands, returned>>

\* browser.close() after the callback only, with no finally around it.
CloseOnReturnOnly(n, at) == IF at = "returning" THEN n - 1 ELSE n

\* withBrowser: finally { await browser.close() }, on the way out of a fetch
\* that is returning or unwinding an exception.
AfterFinally(n, at) == n - 1

\* withBrowser: chromium.launch; it may reject, and then there is no browser.
Launch ==
    /\ Fetching /\ Rendered /\ step = "idle"
    /\ \/ step' = "launched" /\ open' = open + 1 /\ Suspended /\ UNCHANGED exit
       \/ MayFail /\ Resume(OnThrow) /\ exit' = "rejected" /\ UNCHANGED <<step, open>>
    /\ UNCHANGED world

\* One await inside the callback of getRenderedHtml: it returns, or it
\* throws and the finally of withBrowser is next.
Await(from, to) ==
    /\ step = from
    /\ \/ step' = to
       \/ MayFail /\ step' = "unwinding"
    /\ Suspended
    /\ UNCHANGED <<open, exit, world>>

\* browser.newContext, ctx.newPage
NewPage == Await("launched", "page")

\* page.goto (a navigation failure or the timeout throws); the wait that
\* follows catches its own timeout
Goto == Await("page", "loaded")

\* page.content
Content == Await("loaded", "captured")

\* ctx.close
CloseContext == Await("captured", "returning")

\* finally: browser.close; then the html, or the exception, reaches the caller.
CloseBrowser ==
    /\ step \in {"returning", "unwinding"}
    /\ open' = AfterFinally(open, step)
    /\ step' = "idle"
    /\ exit' = step
    /\ IF step = "returning"
       THEN Resume(OnHtml(PageAt(site, variant, Target)))
       ELSE Resume(OnThrow)
    /\ UNCHANGED world

\* part_002: get(url): the text of the response, or an Error.
HttpGet ==
    /\ Fetching /\ ~Rendered
    /\ \/ Resume(OnHtml(PageAt(site, variant, Target)))
       \/ MayFail /\ Resume(OnThrow)
    /\ UNCHANGED <<step, open, exit, world>>

Next ==
    \/ Launch
    \/ NewPage
    \/ Goto
    \/ Content
    \/ CloseContext
    \/ CloseBrowser
    \/ HttpGet

Spec == Init /\ [][Next]_<<vars, pgVars>>

(***************************************************************************)
(* Claims about a run of getAllEvents.                                     *)
(***************************************************************************)
\* The start time of a record, as the filter and the sort parse it.
TimeOf(e) == DateParse(e.dateISO, zone)

Day == 24 * 3600

\* Some record collected by the run has the start time t.
Scraped(t) == \E i \in 1..Len(out) : TimeOf(out[i]) = t

\* Some record of the returned list has the start time t.
Returns(t) == \E j \in 1..Len(kept) : TimeOf(kept[j]) = t

\* getAllEvents of scrape.ts or part_001 has returned.
ReferenceDone == pc = "done" /\ Rendered

\* C2: under the reference policy a collected record is in the returned list
\* if and only if its dateISO parses to a finite time t with
\* now - 30 days <= t <= now + 365 days, both ends included, where now is the
\* clock as the filter read it; nothing else is in the returned list.
C2_WindowInclusive ==
    ReferenceDone =>
        /\ \A i \in 1..Len(out) :
             (\E j \in 1..Len(kept) : kept[j] = out[i])
             <=> /\ TimeOf(out[i]) # NaN
                 /\ now - 30 * Day <= TimeOf(out[i])
                 /\ TimeOf(out[i]) <= now + 365 * Day
        /\ \A j \in 1..Len(kept) : \E i \in 1..Len(out) : out[i] = kept[j]

\* A run of the reference policy that met both ends of the window, the second
\* before and the second after, and a date that does not parse.
C2_Witness ==
    /\ ReferenceDone
    /\ Returns(now - 30 * Day) /\ Returns(now + 365 * Day)
    /\ Scraped(now - 30 * Day - 1) /\ ~Returns(now - 30 * Day - 1)
    /\ Scraped(now + 365 * Day + 1) /\ ~Returns(now + 365 * Day + 1)
    /\ Scraped(NaN) /\ ~Returns(NaN)

\* C3: the returned list is in non-decreasing order of start time, and the
\* records of one start time stand in it in the order in which they were
\* collected, which is the order in which their URLs were discovered.
C3_SortedStable ==
    pc = "done" =>
        /\ \A i, j \in 1..Len(kept) : i < j => TimeOf(kept[i]) <= TimeOf(kept[j])
        /\ \A k \in 1..Len(kept) :
             SelectSeq(kept, LAMBDA e : TimeOf(e) = TimeOf(kept[k]))
             = SelectSeq(out, LAMBDA e : TimeOf(e) = TimeOf(kept[k]))

\* A run that collected a later record before an earlier one, both returned,
\* and returned two different records of one start time.
C3_Witness ==
    /\ pc = "done"
    /\ \E i, j \in 1..Len(out) :
         /\ i < j
         /\ TimeOf(out[i]) > TimeOf(out[j])
         /\ Returns(TimeOf(out[i])) /\ Returns(TimeOf(out[j]))
    /\ \E i, j \in 1..Len(kept) :
         i < j /\ kept[i] # kept[j] /\ TimeOf(kept[i]) = TimeOf(kept[j])

\* What scrapeEvent returns for the URL at position i of the list when
\* nothing throws: the record of the page, or none.
RecordsAt(i) == ScrapePage(variant, PageAt(site, variant, list[i]), list[i])

\* C4: an exception while scraping one URL of the list makes scrapeEvent
\* return absent for that URL only: it does not end the run, the loop visits
\* every URL of the list, and the collected results are, in the order of the
\* list, the records of every URL whose scrape did not throw.
C4_PerItemIsolation ==
    /\ pc = "failed" => failed = {}
    /\ pc \in {"scrape", "done"} =>
         out = Flatten([i \in 1..idx |-> IF i \in failed THEN << >> ELSE RecordsAt(i)])
    /\ pc = "done" => idx = Len(list)

\* A run over at least three URLs in which only the second threw, and the
\* first and the third yielded their records.
C4_Witness ==
    /\ pc = "done"
    /\ failed = {2}
    /\ Len(list) >= 3
    /\ RecordsAt(1) # << >> /\ RecordsAt(3) # << >>
    /\ \E i, j \in 1..Len(out) :
         i < j /\ << out[i] >> = RecordsAt(1) /\ << out[j] >> = RecordsAt(3)

\* discoverEventUrls has returned.
DiscoveryDone == month = IndexCount(variant)

\* How many entries of a list are the URL u.
Occurrences(l, u) == Cardinality({k \in 1..Len(l) : l[k] = u})

\* The returned list holds each candidate reference exactly once, the
\* first-discovered URLs first: the claim as read without the cap.
C5_EachExactlyOnce ==
    DiscoveryDone =>
        LET firsts == {i \in 1..Len(cands) : \A j \in 1..(i - 1) : cands[j] # cands[i]}
            rank(i) == Cardinality({j \in firsts : j <= i})
        IN  /\ \A i \in 1..Len(cands) : Occurrences(returned, cands[i]) = 1
            /\ \A i \in firsts :
                 rank(i) <= Len(returned) /\ returned[rank(i)] = cands[i]

\* C5: the list discoverEventUrls returns never holds a URL twice; references
\* that resolve to one absolute URL give one entry, which stands at the place
\* of the URL's first discovery among the distinct URLs, provided that place
\* is within the safety cap; a URL first discovered beyond the cap is not in
\* the list.
C5_DedupWithinCap ==
    DiscoveryDone =>
        LET firsts == {i \in 1..Len(cands) : \A j \in 1..(i - 1) : cands[j] # cands[i]}
            rank(i) == Cardinality({j \in firsts : j <= i})
        IN  /\ \A i \in 1..Len(returned) : Occurrences(returned, returned[i]) = 1
            /\ \A i \in firsts :
                 IF rank(i) <= DiscoveryCap(variant)
                 THEN rank(i) <= Len(returned) /\ returned[rank(i)] = cands[i]
                 ELSE Occurrences(returned, cands[i]) = 0

\* Discovery came by one URL twice within the cap, and by more distinct URLs
\* than the cap allows.
C5_Witness ==
    /\ DiscoveryDone
    /\ \E i, j \in 1..Len(cands) :
         i < j /\ cands[i] = cands[j] /\ Occurrences(returned, cands[i]) = 1
    /\ \E i \in 1..Len(cands) : Occurrences(returned, cands[i]) = 0

\* C6: discoverEventUrls returns at most the safety cap of URLs, and one run
\* of getAllEvents scrapes at most that many event pages.
C6_WorkCapped ==
    /\ DiscoveryDone => Len(returned) <= DiscoveryCap(variant)
    /\ idx <= DiscoveryCap(variant)

\* C9: a failure confined to one page, index page or event page, never makes
\* getAllEvents throw.
C9_PageFailureContained == pc # "failed"

\* C10: at most one browser is open at any time, one is open only while a
\* fetch is in progress, and a fetch that has returned or thrown has closed
\* the browser it launched.
C10_NoBrowserLeak ==
    /\ open \in {0, 1}
    /\ step = "idle" => open = 0
    /\ ~Rendered => open = 0

\* A fetch whose callback threw has left withBrowser, and no browser is open.
C10_Witness ==
    /\ Rendered
    /\ step = "idle"
    /\ exit = "unwinding"
    /\ open = 0

\* C13: no two records of the list getAllEvents returns have the same url,
\* which toIcsEvent takes as the UID of the calendar entry.
C13_UniqueUid ==
    pc = "done" =>
        \A i, j \in 1..Len(kept) : kept[i].url = kept[j].url => i = j

=============================================================================
